---- MODULE Spec2Model ----
(***************************************************************************)
(* Fee / price reconciliation engine of the platform comparator            *)
(* (simulateur_frais_plateformes_streamlit.py): Platform.client_fee_amount,*)
(* base_before_client_fees, host_net, _solve_price_from_net_percentage,    *)
(* price_from_net and compute_table.                                       *)
(*                                                                         *)
(* Python floats are modelled by exact arithmetic: a finite value is       *)
(*     hi / 1e-12 + lo      with hi, lo rationals <<numerator, denominator>>*)
(* (hi is non-zero only for a value that was divided by the 1e-12 stand-in *)
(* denominator of the solver), plus the non-finite values inf, -inf, nan.  *)
(* A raised ZeroDivisionError is an outcome of its own.                    *)
(***************************************************************************)
EXTENDS Integers, Sequences, FiniteSets, TLC

VARIABLES platform, sale_price, net, last, price, candidates,
          platforms, input_mode, input_value, DF, rows

fnvars == <<platform, sale_price, net, last, price, candidates>>
tblvars == <<platforms, input_mode, input_value, DF, rows>>
vars == <<platform, sale_price, net, last, price, candidates,
          platforms, input_mode, input_value, DF, rows>>

(***************************************************************************)
(* Rationals                                                               *)
(***************************************************************************)
Abs(i) == IF i < 0 THEN -i ELSE i

RECURSIVE GCD(_, _)
GCD(a, b) == IF b = 0 THEN a ELSE GCD(b, a % b)

\* n / d in lowest terms, the denominator positive
R(n, d) ==
    IF d = 1 THEN <<n, 1>>
    ELSE LET g == GCD(Abs(n), Abs(d))
             s == IF d < 0 THEN -1 ELSE 1
         IN  <<(s * n) \div g, (s * d) \div g>>

Zero == <<0, 1>>
One == <<1, 1>>
Hundred == <<100, 1>>
Int2R(i) == <<i, 1>>

\* common factors are divided out before the products are formed
RAdd(a, b) ==
    IF a[1] = 0 THEN b
    ELSE IF b[1] = 0 THEN a
    ELSE IF a[2] = b[2] THEN R(a[1] + b[1], a[2])
    ELSE LET g == GCD(a[2], b[2])
         IN  R(a[1] * (b[2] \div g) + b[1] * (a[2] \div g), (a[2] \div g) * b[2])
RNeg(a) == <<-a[1], a[2]>>
RSub(a, b) == RAdd(a, RNeg(b))
RMul(a, b) ==
    IF a[1] = 0 \/ b[1] = 0 THEN <<0, 1>>
    ELSE IF a[2] = 1 /\ b[2] = 1 THEN <<a[1] * b[1], 1>>
    ELSE LET g1 == GCD(Abs(a[1]), b[2])
             g2 == GCD(Abs(b[1]), a[2])
         IN  <<(a[1] \div g1) * (b[1] \div g2), (a[2] \div g2) * (b[2] \div g1)>>
RDiv(a, b) ==
    IF b[1] < 0 THEN RMul(a, <<-b[2], -b[1]>>) ELSE RMul(a, <<b[2], b[1]>>)
RLt(a, b) ==
    IF a[2] = b[2] THEN a[1] < b[1]
    ELSE LET g == GCD(a[2], b[2])
         IN  a[1] * (b[2] \div g) < b[1] * (a[2] \div g)
RLeq(a, b) == ~RLt(b, a)
RSign(a) == IF a[1] > 0 THEN 1 ELSE IF a[1] < 0 THEN -1 ELSE 0

\* a <= 1/k for a positive integer k, without forming a[1] * k
RLeqInv(a, k) == a[1] <= a[2] \div k

(***************************************************************************)
(* Floats                                                                  *)
(***************************************************************************)
Fin(r) == [k |-> "fin", hi |-> Zero, lo |-> r]
Inf == [k |-> "inf", hi |-> Zero, lo |-> Zero]
NegInf == [k |-> "-inf", hi |-> Zero, lo |-> Zero]
NaN == [k |-> "nan", hi |-> Zero, lo |-> Zero]
ZeroDivisionError == [k |-> "ZeroDivisionError", hi |-> Zero, lo |-> Zero]
None == <<>>

IsFinite(x) == x.k = "fin"
IsRaise(x) == x.k = "ZeroDivisionError"

FNeg(x) ==
    CASE x.k = "fin" -> [k |-> "fin", hi |-> RNeg(x.hi), lo |-> RNeg(x.lo)]
      [] x.k = "inf" -> NegInf
      [] x.k = "-inf" -> Inf
      [] OTHER -> x

FAdd(x, y) ==
    CASE x.k = "nan" \/ y.k = "nan" -> NaN
      [] x.k = "fin" /\ y.k = "fin" ->
            [k |-> "fin", hi |-> RAdd(x.hi, y.hi), lo |-> RAdd(x.lo, y.lo)]
      [] x.k = "fin" -> y
      [] y.k = "fin" -> x
      [] x.k = y.k -> x
      [] OTHER -> NaN

FSub(x, y) == FAdd(x, FNeg(y))

\* x * r for a finite rational r
FScale(x, r) ==
    CASE x.k = "nan" -> NaN
      [] x.k = "fin" ->
            [k |-> "fin", hi |-> RMul(x.hi, r), lo |-> RMul(x.lo, r)]
      [] RSign(r) = 0 -> NaN
      [] RSign(r) > 0 -> x
      [] OTHER -> FNeg(x)

\* x / r for a rational r; Python raises ZeroDivisionError when r = 0
FDiv(x, r) == IF r = Zero THEN ZeroDivisionError ELSE FScale(x, RDiv(One, r))

\* x / 1e-12 for a value x that carries no 1e-12 quotient itself
FDivTiny(x) ==
    IF x.k = "fin" THEN [k |-> "fin", hi |-> x.lo, lo |-> Zero] ELSE x

\* x < y. A difference of hi parts outweighs any difference of lo parts:
\* hi counts units of 1e12.
FLt(x, y) ==
    CASE x.k = "nan" \/ y.k = "nan" -> FALSE
      [] x.k = "fin" /\ y.k = "fin" ->
            IF x.hi = y.hi THEN RLt(x.lo, y.lo) ELSE RLt(x.hi, y.hi)
      [] x.k = y.k -> FALSE
      [] OTHER -> x.k = "-inf" \/ y.k = "inf"

FLeq(x, y) ==
    CASE x.k = "nan" \/ y.k = "nan" -> FALSE
      [] OTHER -> ~FLt(y, x)

\* Python's max(a, b) and min(a, b): the first argument unless the second wins
pymax(a, b) == IF FLt(a, b) THEN b ELSE a
pymin(a, b) == IF FLt(b, a) THEN b ELSE a

\* the tolerance 1e-9 of the consistency checks is 1 / EpsInv
EpsInv == 1000000000

\* x <= y + 1/k for finite x, y
FLeqPlus(x, y, k) ==
    LET d == FSub(x, y)
    IN  IF d.hi = Zero THEN RLeqInv(d.lo, k) ELSE RSign(d.hi) < 0

\* x >= y - 1/k
FGeqMinus(x, y, k) == FLeqPlus(y, x, k)

(***************************************************************************)
(* Platform (dataclass) and the forward calculation                        *)
(***************************************************************************)
NoVal == [k |-> "none", hi |-> Zero, lo |-> Zero]
NotComputed == [raised |-> "not computed", table |-> <<>>]

Platform(name, host_pct, mode, value, floor_eur, cap_eur) ==
    [name |-> name,
     host_commission_pct |-> host_pct,
     client_fee_mode |-> mode,
     client_fee_value |-> value,
     client_fee_floor_eur |-> floor_eur,
     client_fee_cap_eur |-> cap_eur]

\* float(self.client_fee_floor_eur or 0.0)
floor_or_zero(self) ==
    IF self.client_fee_floor_eur = None \/ self.client_fee_floor_eur = Zero
    THEN Zero ELSE self.client_fee_floor_eur

client_fee_amount(self, sp) ==
    IF self.client_fee_mode = "percentage"
    THEN LET pct_val == FScale(sp, RDiv(self.client_fee_value, Hundred))
             floor == Fin(floor_or_zero(self))
             cap == self.client_fee_cap_eur
             fee == pymax(pct_val, floor)
         IN  IF cap # None THEN pymin(fee, Fin(cap)) ELSE fee
    ELSE Fin(self.client_fee_value)

base_before_client_fees(self, sp) == FSub(sp, client_fee_amount(self, sp))

\* host_net with the commission percentage used as a fraction
host_net_no_percent(self, sp) ==
    LET base == base_before_client_fees(self, sp)
    IN  FScale(base, RSub(One, self.host_commission_pct))

host_net(self, sp) ==
    LET base == base_before_client_fees(self, sp)
    IN  FScale(base, RSub(One, RDiv(self.host_commission_pct, Hundred)))

(***************************************************************************)
(* Inversion: public price P from the net N                                *)
(***************************************************************************)
\* 1) floor regime: P_floor = N / (1 - h) + floor
P_floor(N, h, floor) == FAdd(FDiv(N, RSub(One, h)), Fin(floor))
floor_ok(N, h, cp, floor) ==
    FLeqPlus(FScale(P_floor(N, h, floor), cp), Fin(floor), EpsInv)

\* 2) cap regime: P_cap = N / (1 - h) + cap
P_cap_no_cap(N, h, cap) == FDiv(N, RSub(One, h))
P_cap(N, h, cap) == FAdd(FDiv(N, RSub(One, h)), Fin(cap))
cap_ok(N, h, cp, cap) ==
    FGeqMinus(FScale(P_cap(N, h, cap), cp), Fin(cap), EpsInv)

\* 3) proportional regime: denom = (1 - cp) * (1 - h), 1e-12 when denom <= 0
denom(h, cp) == RMul(RSub(One, cp), RSub(One, h))
P_pct(N, h, cp) ==
    IF RLeq(denom(h, cp), Zero) THEN FDivTiny(N) ELSE FDiv(N, denom(h, cp))
pct_ok(N, h, cp, floor, cap) ==
    LET ok_low == FGeqMinus(FScale(P_pct(N, h, cp), cp), Fin(floor), EpsInv)
        ok_high == IF cap = None THEN TRUE
                   ELSE FLeqPlus(FScale(P_pct(N, h, cp), cp), Fin(cap), EpsInv)
    IN  ok_low /\ ok_high

\* the candidates with the cap regime left out
solver_candidates_no_cap(N, h, cp, floor, cap) ==
    (IF floor_ok(N, h, cp, floor) THEN << <<P_floor(N, h, floor), "floor">> >> ELSE <<>>)
    \o (IF pct_ok(N, h, cp, floor, cap) THEN << <<P_pct(N, h, cp), "pct">> >> ELSE <<>>)

\* the list `candidates` as line 111 reads it: <<price, regime>> in append order
solver_candidates(N, h, cp, floor, cap) ==
    (IF floor_ok(N, h, cp, floor) THEN << <<P_floor(N, h, floor), "floor">> >> ELSE <<>>)
    \o (IF cap # None /\ cap_ok(N, h, cp, cap)
        THEN << <<P_cap(N, h, cap), "cap">> >> ELSE <<>>)
    \o (IF pct_ok(N, h, cp, floor, cap) THEN << <<P_pct(N, h, cp), "pct">> >> ELSE <<>>)

\* the first candidate instead of the smallest
min_price_first(c) == c[1][1]

\* min(p for p, _ in candidates): the first smallest price
RECURSIVE min_price(_)
min_price(c) ==
    IF Len(c) = 1 THEN c[1][1] ELSE pymin(c[1][1], min_price(Tail(c)))

\* min(..., default=d): d when there is no candidate
min_default(c, d) == IF c = <<>> THEN d ELSE min_price(c)

solve_price_from_net_percentage(N, h, cp, floor, cap) ==
    IF RSub(One, h) = Zero THEN ZeroDivisionError
    ELSE min_default(solver_candidates(N, h, cp, floor, cap),
                     pymax(P_floor(N, h, floor), P_pct(N, h, cp)))

\* the fixed-fee price with the net multiplied by (1 - h)
fixed_fee_price_times(f, n, dn) == FAdd(Fin(f), FScale(n, dn))

\* P = f + N / (1 - h)
fixed_fee_price(f, n, dn) == FAdd(Fin(f), FDiv(n, dn))

\* price_from_net without the test denom != 0
price_from_net_unguarded(p, n) ==
    LET h == RDiv(p.host_commission_pct, Hundred)
    IN  IF p.client_fee_mode = "percentage"
        THEN solve_price_from_net_percentage(
                 n, h, RDiv(p.client_fee_value, Hundred),
                 floor_or_zero(p), p.client_fee_cap_eur)
        ELSE fixed_fee_price(p.client_fee_value, n, RSub(One, h))

price_from_net(p, n) ==
    LET h == RDiv(p.host_commission_pct, Hundred)
    IN  IF p.client_fee_mode = "percentage"
        THEN solve_price_from_net_percentage(
                 n, h, RDiv(p.client_fee_value, Hundred),
                 floor_or_zero(p), p.client_fee_cap_eur)
        ELSE IF RSub(One, h) # Zero
             THEN fixed_fee_price(p.client_fee_value, n, RSub(One, h))
             ELSE Inf

\* what `candidates` holds when price_from_net(p, n) returns or raises
solver_trace(p, n) ==
    LET h == RDiv(p.host_commission_pct, Hundred)
    IN  IF p.client_fee_mode = "percentage" /\ RSub(One, h) # Zero
        THEN solver_candidates(n, h, RDiv(p.client_fee_value, Hundred),
                               floor_or_zero(p), p.client_fee_cap_eur)
        ELSE <<>>

(***************************************************************************)
(* Inputs of the engine                                                    *)
(***************************************************************************)
MaxPrice == 5
MaxNet == 3
MaxFloor == 1
MaxCap == 2
FeeSteps == 3

Prices == {Int2R(i) : i \in 0..MaxPrice}
Nets == {Int2R(i) : i \in (-MaxNet)..MaxNet}
Floors == {Int2R(i) : i \in 0..MaxFloor}
Caps == {None} \cup {Int2R(i) : i \in 0..MaxCap}
\* st.number_input("Commission hôte (%)", min_value=0.0, max_value=100.0)
HostPcts == {Int2R(0), Int2R(50), Int2R(100)}
\* st.number_input("Montant des frais client", min_value=0.0): % or euros
ClientFeeValues == {Int2R(50 * i) : i \in 0..FeeSteps}
FeeModes == {"percentage", "fixed"}

GDF_NAME == <<"G", "î", "t", "e", "s", " ", "d", "e", " ", "F", "r", "a", "n", "c", "e">>

\* a fixed-fee platform carries the defaults (floor 0.0, cap None) or a floor
\* and a cap that its mode ignores
Platforms ==
    {Platform(GDF_NAME, h, "percentage", v, f, c) :
        h \in HostPcts, v \in ClientFeeValues, f \in Floors, c \in Caps}
    \cup {Platform(GDF_NAME, h, "fixed", v, fc[1], fc[2]) :
        h \in HostPcts, v \in ClientFeeValues,
        fc \in {<<Zero, None>>, <<Int2R(MaxFloor), Int2R(MaxCap)>>}}

(***************************************************************************)
(* Calls of the engine's functions on one platform                         *)
(***************************************************************************)
TblIdle ==
    /\ platforms = <<>>
    /\ input_mode = "price_client"
    /\ input_value = Zero
    /\ DF = NotComputed
    /\ rows = <<>>

Init ==
    /\ platform \in Platforms
    /\ sale_price = NoVal
    /\ net = NoVal
    /\ last = [sale_price |-> NoVal, net |-> NoVal]
    /\ price = NoVal
    /\ candidates = <<>>
    /\ TblIdle

\* n = platform.host_net(P); the call before it is kept in `last`
HostNet(P) ==
    /\ last' = [sale_price |-> sale_price, net |-> IF sale_price = NoVal THEN NoVal ELSE net]
    /\ sale_price' = Fin(P)
    /\ net' = host_net(platform, Fin(P))
    /\ price' = NoVal
    /\ candidates' = <<>>
    /\ UNCHANGED <<platform, platforms, input_mode, input_value, DF, rows>>

\* P = price_from_net(platform, N) for a net N that is given
PriceFromNet(N) ==
    /\ sale_price' = NoVal
    /\ last' = [sale_price |-> NoVal, net |-> NoVal]
    /\ net' = Fin(N)
    /\ price' = price_from_net(platform, Fin(N))
    /\ candidates' = solver_trace(platform, Fin(N))
    /\ UNCHANGED <<platform, platforms, input_mode, input_value, DF, rows>>

\* P = price_from_net(platform, platform.host_net(sale_price))
Invert ==
    /\ sale_price # NoVal
    /\ price = NoVal
    /\ price' = price_from_net(platform, net)
    /\ candidates' = solver_trace(platform, net)
    /\ UNCHANGED <<platform, sale_price, net, last, platforms, input_mode, input_value, DF, rows>>

Next ==
    \/ \E P \in Prices : HostNet(P)
    \/ \E N \in Nets : PriceFromNet(N)
    \/ Invert

Spec == Init /\ [][Next]_vars

(***************************************************************************)
(* Properties of the engine's functions                                    *)
(***************************************************************************)
HostBelow100(p) == RLt(p.host_commission_pct, Hundred)
FeeBelow100(p) == p.client_fee_mode = "percentage" => RLt(p.client_fee_value, Hundred)
FeeAtMost100(p) == p.client_fee_mode = "percentage" => RLeq(p.client_fee_value, Hundred)
FloorLeqCap(p) ==
    p.client_fee_cap_eur = None \/ RLeq(floor_or_zero(p), p.client_fee_cap_eur)
\* |x - y| <= 1e-6
Close(x, y) ==
    /\ IsFinite(x) /\ IsFinite(y)
    /\ FLeqPlus(x, y, 1000000) /\ FLeqPlus(y, x, 1000000)
Regimes(c) == {c[i][2] : i \in DOMAIN c}
Inverted == sale_price # NoVal /\ price # NoVal
Solved == price # NoVal

\* C1 (as claimed): for every platform with host commission in [0,100) %, a
\* client fee value >= 0 in either mode and floor <= cap, and every public
\* price P >= 0, price_from_net(m, m.host_net(P)) equals P within 1e-6.
C1_RoundTrip_AsClaimed ==
    (Inverted /\ HostBelow100(platform) /\ FloorLeqCap(platform))
        => Close(price, sale_price)

\* C1 (amended): the round trip price_from_net(m, m.host_net(P)) = P within
\* 1e-6 holds when, in addition, a percentage client fee is below 100 %.
C1_RoundTrip ==
    (Inverted /\ HostBelow100(platform) /\ FloorLeqCap(platform)
              /\ FeeBelow100(platform))
        => Close(price, sale_price)

\* a round trip through the cap regime alone, with a floor and a host commission
C1_Witness ==
    /\ Inverted /\ FloorLeqCap(platform) /\ FeeBelow100(platform)
    /\ platform.client_fee_mode = "percentage"
    /\ platform.host_commission_pct = Int2R(50)
    /\ platform.client_fee_floor_eur # Zero
    /\ Regimes(candidates) = {"cap"}
    /\ price = sale_price

\* C3: price_from_net ends with a defined result (a number or a non-finite
\* sentinel) for every platform and every net: it never raises.
C3_NeverRaises == Solved => ~IsRaise(price)

\* C4: for a fixed-fee platform whose host commission is 100 %, price_from_net
\* reports the distinguished non-finite result (inf) for every net, never a
\* finite price or NaN.
C4_FixedUnsolvable ==
    (Solved /\ platform.client_fee_mode = "fixed"
            /\ platform.host_commission_pct = Hundred)
        => price = Inf

C4_Witness ==
    /\ Solved /\ sale_price = NoVal /\ net # Fin(Zero)
    /\ platform.client_fee_mode = "fixed"
    /\ platform.host_commission_pct = Hundred
    /\ price = Inf

HostNetTwice == sale_price # NoVal /\ last.sale_price # NoVal

\* C5 (as claimed): for every platform (either mode, client fee value >= 0,
\* floor <= cap, host commission in [0,100] %), P1 <= P2 implies
\* host_net(P1) <= host_net(P2).
C5_Monotone_AsClaimed ==
    (HostNetTwice /\ FloorLeqCap(platform) /\ FLeq(last.sale_price, sale_price))
        => FLeq(last.net, net)

\* C5 (amended): host_net is non-decreasing in the public price when, in
\* addition, a percentage client fee is at most 100 %.
C5_Monotone ==
    (HostNetTwice /\ FloorLeqCap(platform) /\ FeeAtMost100(platform)
                  /\ FLeq(last.sale_price, sale_price))
        => FLeq(last.net, net)

\* two prices on either side of the floor and cap regimes, the net rising
C5_Witness ==
    /\ HostNetTwice /\ FloorLeqCap(platform) /\ FeeAtMost100(platform)
    /\ platform.client_fee_mode = "percentage"
    /\ platform.client_fee_floor_eur # Zero
    /\ platform.client_fee_cap_eur # None
    /\ platform.client_fee_floor_eur # platform.client_fee_cap_eur
    /\ client_fee_amount(platform, last.sale_price) = Fin(platform.client_fee_floor_eur)
    /\ client_fee_amount(platform, sale_price) = Fin(platform.client_fee_cap_eur)
    /\ FLt(last.sale_price, sale_price)
    /\ FLt(last.net, net)

PercentageReturned ==
    Solved /\ platform.client_fee_mode = "percentage" /\ ~IsRaise(price)
h_of(p) == RDiv(p.host_commission_pct, Hundred)
cp_of(p) == RDiv(p.client_fee_value, Hundred)

\* C7: the percentage inverse returns the smallest price among the regime
\* candidates that passed their consistency check; only when none passed does
\* it return the maximum of the floor candidate and the proportional candidate.
C7_Selection ==
    PercentageReturned =>
        IF candidates # <<>>
        THEN /\ \E i \in DOMAIN candidates : candidates[i][1] = price
             /\ \A i \in DOMAIN candidates : FLeq(price, candidates[i][1])
        ELSE LET pf == P_floor(net, h_of(platform), floor_or_zero(platform))
                 pp == P_pct(net, h_of(platform), cp_of(platform))
             IN  /\ price \in {pf, pp}
                 /\ FLeq(pf, price) /\ FLeq(pp, price)

\* two regimes accepted with different prices, the smaller one returned
C7_Witness ==
    /\ PercentageReturned
    /\ Len(candidates) >= 2
    /\ \E i \in DOMAIN candidates : FLt(price, candidates[i][1])
    /\ \E i \in DOMAIN candidates : candidates[i][1] = price

\* C8: whenever (1 - cp)(1 - h) <= 0 the proportional candidate fails its
\* consistency check: it is not among the accepted candidates and is not the
\* returned price.
C8_DegenerateExcluded ==
    (PercentageReturned /\ RLeq(denom(h_of(platform), cp_of(platform)), Zero))
        => /\ "pct" \notin Regimes(candidates)
           /\ (candidates # <<>> =>
                 price # P_pct(net, h_of(platform), cp_of(platform)))

WellFormedPercentage(p) ==
    /\ p.client_fee_mode = "percentage"
    /\ RLt(p.client_fee_value, Hundred) /\ RLeq(Zero, p.client_fee_value)
    /\ HostBelow100(p) /\ RLeq(Zero, p.host_commission_pct)
    /\ RLeq(Zero, floor_or_zero(p))
    /\ FloorLeqCap(p)

\* C10: for a percentage platform with client fee in [0,100) %, host
\* commission in [0,100) %, floor >= 0 and (no cap or floor <= cap), and every
\* net, at least one regime candidate passes its check: the fallback
\* max(P_floor, P_pct) is never what is returned.
C10_NoFallback ==
    (Solved /\ WellFormedPercentage(platform)) => candidates # <<>>

\* a net beyond the cap's boundary: only the cap regime is accepted
C10_Witness ==
    /\ Solved /\ sale_price = NoVal /\ WellFormedPercentage(platform)
    /\ platform.client_fee_value # Zero
    /\ platform.client_fee_floor_eur # Zero
    /\ Regimes(candidates) = {"cap"}

(***************************************************************************)
(* Config: GDF_DEFAULT and FIXED_PLATFORMS. A name is the sequence of its  *)
(* characters. 15.5 % is <<31, 2>>.                                        *)
(***************************************************************************)
GDF_DEFAULT == Platform(GDF_NAME, Int2R(8), "fixed", Int2R(6), Zero, None)

FIXED_PLATFORMS == <<
    Platform(<<"T", "r", "i", "p", "a", "d", "v", "i", "s", "o", "r", " ",
             "/", " ", "F", "l", "i", "p", "K", "e", "y">>,
             <<3, 1>>, "percentage", <<12, 1>>, Zero, None),
    Platform(<<"A", "i", "r", "b", "n", "b", " ", "h", "o", "s", "t", "-",
             "o", "n", "l", "y">>,
             <<31, 2>>, "percentage", <<0, 1>>, Zero, None),
    Platform(<<"V", "r", "b", "o", " ", "/", " ", "A", "b", "r", "i", "t",
             "e", "l">>,
             <<8, 1>>, "percentage", <<9, 1>>, Zero, None),
    Platform(<<"A", "i", "r", "b", "n", "b", " ", "s", "p", "l", "i", "t">>,
             <<3, 1>>, "percentage", <<15, 1>>, Zero, None),
    Platform(<<"B", "o", "o", "k", "i", "n", "g", ".", "c", "o", "m">>,
             <<17, 1>>, "percentage", <<0, 1>>, Zero, None),
    Platform(<<"H", "o", "l", "i", "d", "u">>,
             <<25, 1>>, "percentage", <<0, 1>>, Zero, None) >>

(***************************************************************************)
(* compute_table                                                           *)
(***************************************************************************)
UPPER == <<"A", "B", "C", "D", "E", "F", "G", "H", "I", "J", "K", "L", "M",
         "N", "O", "P", "Q", "R", "S", "T", "U", "V", "W", "X", "Y", "Z",
         "Î">>
LOWER == <<"a", "b", "c", "d", "e", "f", "g", "h", "i", "j", "k", "l", "m",
         "n", "o", "p", "q", "r", "s", "t", "u", "v", "w", "x", "y", "z",
         "î">>

\* str.lower() on the letters the names are written with
lower_char(c) ==
    IF \E i \in DOMAIN UPPER : UPPER[i] = c
    THEN LOWER[CHOOSE i \in DOMAIN UPPER : UPPER[i] = c]
    ELSE c
str_lower(s) == [i \in DOMAIN s |-> lower_char(s[i])]
startswith(s, prefix) ==
    Len(s) >= Len(prefix) /\ SubSeq(s, 1, Len(prefix)) = prefix

\* df["Plateforme"].str.lower().str.startswith("gîtes de france")
is_gdf(name) == startswith(str_lower(name), str_lower(GDF_NAME))

\* round(x, 2), halves to the even neighbour. The hi part of a price is a
\* whole multiple of 0.01 already.
round2(x) ==
    IF x.k # "fin" THEN x
    ELSE LET n == x.lo[1] * 100
             d == x.lo[2]
             q == n \div d
             r == n - q * d
             up == IF 2 * r > d THEN 1
                   ELSE IF 2 * r < d THEN 0
                   ELSE q % 2
         IN  [x EXCEPT !.lo = R(q + up, 100)]

\* the host commission taken on the public price
host_fee_on_price(base, P, h) == FScale(P, h)

\* host_fee_eur = base * h
host_fee(base, P, h) == FScale(base, h)

\* P of one iteration (lines 238-241)
loop_price(p, mode, value) ==
    IF mode = "price_client" THEN Fin(value) ELSE price_from_net(p, Fin(value))

\* client_fee, base, host_fee_eur and net of one iteration (lines 243-248);
\* an exception raised for P leaves them unassigned
loop_locals_at(p, P) ==
    LET h == RDiv(p.host_commission_pct, Hundred)
        client_fee == client_fee_amount(p, P)
        base == FSub(P, client_fee)
        host_fee_eur == host_fee(base, P, h)
    IN  IF IsRaise(P)
        THEN [P |-> P, client_fee |-> P, base |-> P, host_fee_eur |-> P, net |-> P]
        ELSE [P |-> P, client_fee |-> client_fee, base |-> base,
              host_fee_eur |-> host_fee_eur, net |-> FSub(base, host_fee_eur)]

\* the loop body's locals for one platform (lines 237-248)
loop_locals(p, mode, value) == loop_locals_at(p, loop_price(p, mode, value))

\* the two method columns, by their parts (the %g formatting is left out)
client_method(p) ==
    IF p.client_fee_mode = "percentage"
    THEN <<"pourcentage du prix de vente", p.client_fee_value>>
         \o (IF p.client_fee_floor_eur # Zero /\ p.client_fee_floor_eur # None
             THEN <<"plancher", p.client_fee_floor_eur>> ELSE <<>>)
         \o (IF p.client_fee_cap_eur # None
             THEN <<"plafond", p.client_fee_cap_eur>> ELSE <<>>)
    ELSE <<"forfait fixe", p.client_fee_value>>
host_method(p) == <<"commission hôte", p.host_commission_pct>>

\* rows.append({...}) (lines 259-267)
table_row(p, l) ==
    [Plateforme |-> p.name,
     methode_frais_client |-> client_method(p),
     methode_commission_hote |-> host_method(p),
     frais_clients |-> round2(l.client_fee),
     frais_hote |-> round2(l.host_fee_eur),
     net_hote |-> round2(l.net),
     total_prix_public |-> round2(l.P)]

\* pd.concat([df[df["_is_gdf"]], df[~df["_is_gdf"]]]) (lines 271-272)
IsGdfRow(r) == is_gdf(r.Plateforme)
NotGdfRow(r) == ~is_gdf(r.Plateforme)
gdf_first_unordered(df) == df
gdf_first(df) == SelectSeq(df, IsGdfRow) \o SelectSeq(df, NotGdfRow)

(***************************************************************************)
(* Calls of compute_table                                                  *)
(***************************************************************************)
FixedCount == 2

\* names the editable platform is given (st.text_input "Nom affiché")
NAME_UPPER == <<"G", "Î", "T", "E", "S", " ", "D", "E", " ", "F", "R", "A",
              "N", "C", "E">>
NAME_SUFFIX == <<"G", "î", "t", "e", "s", " ", "d", "e", " ", "F", "r", "a",
               "n", "c", "e", " ", "A", "i", "n">>
NAME_INSIDE == <<"L", "e", "s", " ", "G", "î", "t", "e", "s", " ", "d", "e",
               " ", "F", "r", "a", "n", "c", "e">>
NAME_OTHER == <<"M", "o", "n", " ", "g", "î", "t", "e">>
GdfNames == {GDF_NAME, NAME_UPPER, NAME_SUFFIX, NAME_INSIDE, NAME_OTHER}

\* the editable platform: the default, and percentage and fixed settings
GdfSettings ==
    {Platform(n, Int2R(8), "fixed", Int2R(6), Zero, None) : n \in GdfNames}
    \cup {Platform(GDF_NAME, Int2R(100), "fixed", Int2R(6), Zero, None)}
    \cup {Platform(GDF_NAME, h, "percentage", v, f, c) :
        h \in {Int2R(8), Int2R(100)},
        v \in {Int2R(10), Int2R(150)}, f \in {Zero, Int2R(5)},
        c \in {None, Int2R(40)}}

\* the editable platform among FixedCount consecutive fixed platforms
PlatformLists ==
    {SubSeq(FIXED_PLATFORMS, s, s + k - 1) \o <<g>>
         \o SubSeq(FIXED_PLATFORMS, s + k, s + FixedCount - 1) :
        g \in GdfSettings, k \in 0..FixedCount,
        s \in 1..(Len(FIXED_PLATFORMS) - FixedCount + 1)}

InputModes == {"price_client", "net_host"}
\* st.number_input(..., min_value=0.0): 0, the defaults 1000.0 and 850.0, 40
InputValues == {Int2R(0), Int2R(40), Int2R(850), Int2R(1000)}

\* every platform the lists are made of
TablePlatforms == GdfSettings \cup {FIXED_PLATFORMS[i] : i \in DOMAIN FIXED_PLATFORMS}

\* the loop body and the row appended, evaluated once per platform and input
loop_locals_of ==
    [p \in TablePlatforms, mode \in InputModes, value \in InputValues |->
        loop_locals(p, mode, value)]
table_row_of ==
    [p \in TablePlatforms, mode \in InputModes, value \in InputValues |->
        table_row(p, loop_locals_of[p, mode, value])]

\* the iterations whose price_from_net raises
raising(ps, mode, value) ==
    {i \in DOMAIN ps : IsRaise(loop_locals_of[ps[i], mode, value].P)}

\* how many iterations complete: all n, or those before the first of `bad`
completed(bad, n) ==
    IF bad = {} THEN n ELSE (CHOOSE i \in bad : \A j \in bad : i <= j) - 1

\* the locals of the iterations that ran: all of them, or those before the
\* platform whose price_from_net raised
locals_run(ps, mode, value) ==
    [i \in 1..completed(raising(ps, mode, value), Len(ps)) |->
        loop_locals_of[ps[i], mode, value]]

\* the DataFrame returned, or the exception that leaves compute_table
compute_table(ps, mode, value) ==
    IF raising(ps, mode, value) # {}
    THEN [raised |-> "ZeroDivisionError", table |-> <<>>]
    ELSE [raised |-> "",
          table |-> gdf_first([i \in DOMAIN ps |-> table_row_of[ps[i], mode, value]])]

FnIdle ==
    /\ platform = GDF_DEFAULT
    /\ sale_price = NoVal
    /\ net = NoVal
    /\ last = [sale_price |-> NoVal, net |-> NoVal]
    /\ price = NoVal
    /\ candidates = <<>>

TableInit ==
    /\ platforms \in PlatformLists
    /\ input_mode \in InputModes
    /\ input_value \in InputValues
    /\ DF = NotComputed
    /\ rows = <<>>
    /\ FnIdle

\* DF = compute_table(PLATFORMS, input_mode, input_value)
ComputeTable ==
    /\ DF = NotComputed
    /\ DF' = compute_table(platforms, input_mode, input_value)
    /\ rows' = locals_run(platforms, input_mode, input_value)
    /\ UNCHANGED <<platforms, input_mode, input_value, fnvars>>

\* st.radio "Méthode de saisie": the other method's number_input appears with
\* its default (1000.0 or 850.0), and the table is computed again
SetMethod(mode) ==
    /\ DF # NotComputed
    /\ mode # input_mode
    /\ input_mode' = mode
    /\ input_value' = IF mode = "price_client" THEN Int2R(1000) ELSE Int2R(850)
    /\ DF' = compute_table(platforms, input_mode', input_value')
    /\ rows' = locals_run(platforms, input_mode', input_value')
    /\ UNCHANGED <<platforms, fnvars>>

\* the value is changed and the table is computed again
SetValue(value) ==
    /\ DF # NotComputed
    /\ value # input_value
    /\ input_value' = value
    /\ DF' = compute_table(platforms, input_mode, value)
    /\ rows' = locals_run(platforms, input_mode, value)
    /\ UNCHANGED <<platforms, input_mode, fnvars>>

TableNext ==
    \/ ComputeTable
    \/ \E mode \in InputModes : SetMethod(mode)
    \/ \E value \in InputValues : SetValue(value)

TableSpec == TableInit /\ [][TableNext]_vars

(***************************************************************************)
(* Properties of compute_table                                             *)
(***************************************************************************)
Computed == DF # NotComputed
Returned == DF # NotComputed /\ DF.raised = ""

\* C2: for every platform and every public price P >= 0, the breakdown of
\* the forward calculation satisfies net + host commission + client fee = P
\* (within 1e-6), with client fee = client_fee_amount(P), base = P - client
\* fee, host commission = base * h and net = base - host commission.
C2_Conservation ==
    \A i \in DOMAIN rows :
        (IsFinite(rows[i].P) /\ FLeq(Fin(Zero), rows[i].P)) =>
            /\ rows[i].client_fee = client_fee_amount(platforms[i], rows[i].P)
            /\ rows[i].base = FSub(rows[i].P, rows[i].client_fee)
            /\ rows[i].host_fee_eur =
                   FScale(rows[i].base, RDiv(platforms[i].host_commission_pct, Hundred))
            /\ rows[i].net = FSub(rows[i].base, rows[i].host_fee_eur)
            /\ Close(FAdd(FAdd(rows[i].net, rows[i].host_fee_eur),
                          rows[i].client_fee),
                     rows[i].P)

\* the fixed-fee example: 8 %, 6 euros, P = 1000 gives 6, 994, 79.52, 914.48
C2_Witness ==
    /\ Computed /\ input_mode = "price_client" /\ input_value = Int2R(1000)
    /\ \E i \in DOMAIN rows :
        /\ platforms[i] = GDF_DEFAULT
        /\ rows[i].client_fee = Fin(Int2R(6))
        /\ rows[i].base = Fin(Int2R(994))
        /\ rows[i].host_fee_eur = Fin(<<1988, 25>>)
        /\ rows[i].net = Fin(<<22862, 25>>)

\* the names of the model that designate 'Gîtes de France'
Highlighted(name) == name \in {GDF_NAME, NAME_UPPER, NAME_SUFFIX}
RowsOf(name) == {k \in DOMAIN DF.table : DF.table[k].Plateforme = name}
RowOf(name) == CHOOSE k \in DOMAIN DF.table : DF.table[k].Plateforme = name

\* C6: compute_table returns exactly one record per input platform; the
\* highlighted platform (named 'Gîtes de France') is first, and the other
\* platforms keep the relative order of the input list.
C6_Ordering ==
    Returned =>
        /\ Len(DF.table) = Len(platforms)
        /\ \A i \in DOMAIN platforms : Cardinality(RowsOf(platforms[i].name)) = 1
        /\ \A i \in DOMAIN platforms :
              Highlighted(platforms[i].name) => RowOf(platforms[i].name) = 1
        /\ \A i, j \in DOMAIN platforms :
              (i < j /\ ~Highlighted(platforms[i].name)
                     /\ ~Highlighted(platforms[j].name))
                  => RowOf(platforms[i].name) < RowOf(platforms[j].name)

\* the highlighted platform, written in capitals, was last and comes first
C6_Witness ==
    /\ Returned
    /\ platforms[Len(platforms)].name = NAME_UPPER
    /\ DF.table[1].Plateforme = NAME_UPPER
    /\ \A k \in 2..Len(DF.table) : DF.table[k].Plateforme = platforms[k - 1].name

WellFormed(p) ==
    /\ RLeq(Zero, p.host_commission_pct) /\ HostBelow100(p)
    /\ p.client_fee_mode = "percentage" =>
          /\ RLeq(Zero, p.client_fee_value) /\ RLt(p.client_fee_value, Hundred)
          /\ RLeq(Zero, floor_or_zero(p))
          /\ FloorLeqCap(p)

\* C9: in by-net mode, for every well-formed platform (host commission in
\* [0,100) %; in percentage mode client fee in [0,100) % and 0 <= floor <=
\* cap) and every net N >= 0, the price P = price_from_net(m, N) that
\* compute_table uses gives m.host_net(P) = N within 1e-6, and the row shows
\* the net N.
C9_ByNet ==
    (Computed /\ input_mode = "net_host") =>
        \A i \in DOMAIN rows :
            WellFormed(platforms[i]) =>
                /\ rows[i].P = price_from_net(platforms[i], Fin(input_value))
                /\ Close(host_net(platforms[i], rows[i].P), Fin(input_value))
                /\ Close(rows[i].net, Fin(input_value))
                /\ Returned =>
                      DF.table[RowOf(platforms[i].name)].net_hote
                          = round2(Fin(input_value))

\* a by-net table for 850: a row priced in the cap regime, every row at 850
C9_Witness ==
    /\ Returned /\ input_mode = "net_host" /\ input_value = Int2R(850)
    /\ \A i \in DOMAIN platforms : WellFormed(platforms[i])
    /\ \E i \in DOMAIN rows :
        /\ platforms[i].client_fee_cap_eur # None
        /\ platforms[i].client_fee_floor_eur # Zero
        /\ rows[i].client_fee = Fin(platforms[i].client_fee_cap_eur)
    /\ \A k \in DOMAIN DF.table : DF.table[k].net_hote = Fin(Int2R(850))
    /\ \E k \in DOMAIN DF.table :
          DF.table[k].total_prix_public # DF.table[1].total_prix_public

====
